---- MODULE Spec2Model ----
(***************************************************************************)
(* Model of src/mcp_atlassian/models/confluence/common.py: the two         *)
(* Pydantic models ConfluenceUser and ConfluenceAttachment, each with a    *)
(* factory from_api_response (raw mapping -> record) and a serializer      *)
(* to_simplified_dict (record -> reduced mapping).                         *)
(*                                                                         *)
(* Python values are tagged records [k, s, n, m]:                          *)
(*   k = "None" | "str" | "int" | "bool" | "dict"                          *)
(*   s = the characters of a str (a sequence of one-character strings)     *)
(*   n = the number of an int, 1/0 for a bool                              *)
(*   m = the items of a dict: a function from its keys to values           *)
(* A key that is missing from a dict is simply not in DOMAIN m, so a key   *)
(* that is present with the value None differs from a missing key.         *)
(***************************************************************************)
EXTENDS Integers, Sequences, FiniteSets, TLC

VARIABLES cls, data, pc, self, result, error

vars == <<cls, data, pc, self, result, error>>

(***************************************************************************)
(* Bounds of the input space.                                              *)
(***************************************************************************)
\* at most this many keys in a raw payload
MaxKeys == 3
\* raw strings have at most this many characters (besides the literals)
MaxLen == 1

(***************************************************************************)
(* Python values.                                                          *)
(***************************************************************************)
EmptyDict == [x \in {} |-> 0]

None == [k |-> "None", s |-> <<>>, n |-> 0, m |-> EmptyDict]

Str(chars) == [k |-> "str", s |-> chars, n |-> 0, m |-> EmptyDict]

Integer(i) == [k |-> "int", s |-> <<>>, n |-> i, m |-> EmptyDict]

Bool(b) == [k |-> "bool", s |-> <<>>, n |-> IF b THEN 1 ELSE 0, m |-> EmptyDict]

Dict(items) == [k |-> "dict", s |-> <<>>, n |-> 0, m |-> items]

\* bool(v): None, "", 0, False and {} are falsy
Truthy(v) ==
  CASE v.k = "None" -> FALSE
    [] v.k = "str"  -> Len(v.s) > 0
    [] v.k = "int"  -> v.n # 0
    [] v.k = "bool" -> v.n # 0
    [] v.k = "dict" -> DOMAIN v.m # {}

\* a or b
Or(a, b) == IF Truthy(a) THEN a ELSE b

\* d.get(key, default), d a dict
Get(d, key, default) == IF key \in DOMAIN d.m THEN d.m[key] ELSE default

\* whether v.get exists: only a dict has the attribute
HasGet(v) == v.k = "dict"

\* whether `"@" in v` is defined: None and int are not containers
SupportsIn(v) == v.k \in {"str", "dict"}

\* ch in v, for a one-character ch
In(ch, v) ==
  CASE v.k = "str"  -> \E i \in DOMAIN v.s : v.s[i] = ch
    [] v.k = "dict" -> ch \in DOMAIN v.m
    [] OTHER        -> FALSE

(***************************************************************************)
(* String literals of the program.                                         *)
(***************************************************************************)
active == <<"a", "c", "t", "i", "v", "e">>

UNASSIGNED == Str(<<"U", "n", "a", "s", "s", "i", "g", "n", "e", "d">>)

(***************************************************************************)
(* Outcome of a call: a returned record, or an exception.                  *)
(***************************************************************************)
Return(rec) == [error |-> "none", rec |-> rec]

Raise(exc) == [error |-> exc, rec |-> EmptyDict]

(***************************************************************************)
(* Field annotations.  Both classes are Pydantic models: the constructor   *)
(* checks every keyword argument against the annotation of its field and   *)
(* raises a ValidationError when one does not fit.                         *)
(***************************************************************************)
\* str | None
IsOptionalStr(v) == v.k \in {"str", "None"}

\* str
IsStr(v) == v.k = "str"

\* bool
IsBool(v) == v.k = "bool"

\* int | None (no raw string of the model spells a number)
IsOptionalInt(v) == v.k \in {"int", "None"}

(***************************************************************************)
(* class ConfluenceUser                                                    *)
(***************************************************************************)
\* faulty variant: is_active defaults to False
ConfluenceUser_defaults_inactive ==
  [account_id |-> None, username |-> None, display_name |-> UNASSIGNED,
   email |-> None, profile_picture |-> None, is_active |-> Bool(FALSE),
   locale |-> None]

\* cls(): every field at its declared default
ConfluenceUser_defaults ==
  [account_id |-> None, username |-> None, display_name |-> UNASSIGNED,
   email |-> None, profile_picture |-> None, is_active |-> Bool(TRUE),
   locale |-> None]

ConfluenceUser_valid(rec) ==
  /\ IsOptionalStr(rec.account_id)
  /\ IsOptionalStr(rec.username)
  /\ IsStr(rec.display_name)
  /\ IsOptionalStr(rec.email)
  /\ IsOptionalStr(rec.profile_picture)
  /\ IsBool(rec.is_active)
  /\ IsOptionalStr(rec.locale)

\* cls(account_id=..., ...)
ConfluenceUser(rec) ==
  IF ConfluenceUser_valid(rec) THEN Return(rec) ELSE Raise("ValidationError")

\* faulty variant: "emailAddress" is tried before "email"
user_email_swapped(d) ==
  LET first == Or(Get(d, "emailAddress", None), Get(d, "email", None))
      username == Get(d, "username", Str(<<>>))
  IN IF ~Truthy(first) /\ In("@", username) THEN username ELSE first

\* email = data.get("email") or data.get("emailAddress"); if not email: ...
\* (evaluated once `"@" in username` is known not to raise)
user_email(d) ==
  LET first == Or(Get(d, "email", None), Get(d, "emailAddress", None))
      username == Get(d, "username", Str(<<>>))
  IN IF ~Truthy(first) /\ In("@", username) THEN username ELSE first

\* whether the email resolution raises TypeError at `"@" in username`
user_email_raises(d) ==
  /\ ~Truthy(Or(Get(d, "email", None), Get(d, "emailAddress", None)))
  /\ ~SupportsIn(Get(d, "username", Str(<<>>)))

\* faulty variant: "name" is tried before "username"
user_username_swapped(d) == Or(Get(d, "name", None), Get(d, "username", None))

\* username = data.get("username") or data.get("name")
user_username(d) == Or(Get(d, "username", None), Get(d, "name", None))

\* faulty variant: the display name is read from "name"
user_display_name_from_name(d) == Get(d, "name", UNASSIGNED)

\* display_name=data.get("displayName", UNASSIGNED)
user_display_name(d) == Get(d, "displayName", UNASSIGNED)

\* faulty variant: any truthy status counts as active
user_is_active_truthy(d) == Bool(Truthy(Get(d, "accountStatus", None)))

\* is_active=data.get("accountStatus") == "active"
user_is_active(d) == Bool(Get(d, "accountStatus", None) = Str(active))

\* whether pic_data.get("path") raises AttributeError
user_profile_pic_raises(d) ==
  LET pic_data == Get(d, "profilePicture", None)
  IN Truthy(pic_data) /\ ~HasGet(pic_data)

\* profile_pic = None; if pic_data := data.get("profilePicture"): ...
user_profile_pic(d) ==
  LET pic_data == Get(d, "profilePicture", None)
  IN IF Truthy(pic_data) THEN Get(pic_data, "path", None) ELSE None

ConfluenceUser_from_api_response(d) ==
  IF ~Truthy(d) THEN Return(ConfluenceUser_defaults)
  ELSE IF user_profile_pic_raises(d) THEN Raise("AttributeError")
  ELSE IF user_email_raises(d) THEN Raise("TypeError")
  ELSE ConfluenceUser(
         [account_id      |-> Get(d, "accountId", None),
          username        |-> user_username(d),
          display_name    |-> user_display_name(d),
          email           |-> user_email(d),
          profile_picture |-> user_profile_pic(d),
          is_active       |-> user_is_active(d),
          locale          |-> Get(d, "locale", None)])

\* faulty variant: the account id leaks into the simplified view
ConfluenceUser_to_simplified_dict_leaky(rec) ==
  [display_name |-> rec.display_name, username |-> rec.username,
   email |-> rec.email, profile_picture |-> rec.profile_picture,
   account_id |-> rec.account_id]

ConfluenceUser_to_simplified_dict(rec) ==
  [display_name |-> rec.display_name, username |-> rec.username,
   email |-> rec.email, profile_picture |-> rec.profile_picture]

(***************************************************************************)
(* class ConfluenceAttachment                                              *)
(***************************************************************************)
\* cls(): every field at its declared default
ConfluenceAttachment_defaults ==
  [id |-> None, type |-> None, status |-> None, title |-> None,
   media_type |-> None, file_size |-> None]

ConfluenceAttachment_valid(rec) ==
  /\ IsOptionalStr(rec.id)
  /\ IsOptionalStr(rec.type)
  /\ IsOptionalStr(rec.status)
  /\ IsOptionalStr(rec.title)
  /\ IsOptionalStr(rec.media_type)
  /\ IsOptionalInt(rec.file_size)

\* cls(id=..., ...)
ConfluenceAttachment(rec) ==
  IF ConfluenceAttachment_valid(rec) THEN Return(rec)
  ELSE Raise("ValidationError")

\* data.get("extensions", {})
attachment_extensions(d) == Get(d, "extensions", Dict(EmptyDict))

ConfluenceAttachment_from_api_response(d) ==
  IF ~Truthy(d) THEN Return(ConfluenceAttachment_defaults)
  ELSE IF ~HasGet(attachment_extensions(d)) THEN Raise("AttributeError")
  ELSE ConfluenceAttachment(
         [id         |-> Get(d, "id", None),
          type       |-> Get(d, "type", None),
          status     |-> Get(d, "status", None),
          title      |-> Get(d, "title", None),
          media_type |-> Get(attachment_extensions(d), "mediaType", None),
          file_size  |-> Get(attachment_extensions(d), "fileSize", None)])

\* faulty variant: the media type is dropped from the simplified view
ConfluenceAttachment_to_simplified_dict_lossy(rec) ==
  [id |-> rec.id, type |-> rec.type, status |-> rec.status,
   title |-> rec.title, media_type |-> None, file_size |-> rec.file_size]

ConfluenceAttachment_to_simplified_dict(rec) ==
  [id |-> rec.id, type |-> rec.type, status |-> rec.status,
   title |-> rec.title, media_type |-> rec.media_type,
   file_size |-> rec.file_size]

(***************************************************************************)
(* Raw payloads: what the HTTP client may hand to from_api_response.       *)
(***************************************************************************)
Chars == {"a", "@"}

Strings == UNION {[1..len -> Chars] : len \in 0..MaxLen} \cup {active}

Scalars == {None} \cup {Str(x) : x \in Strings} \cup {Integer(i) : i \in {0, 1}}

\* every dict with keys among K and values in V
Dicts(K, V) == UNION {[D -> V] : D \in {E \in SUBSET K : Cardinality(E) <= MaxKeys}}

\* the keys the user factory reads as plain values, and the nested one
UserScalarKeys ==
  {"accountId", "username", "name", "displayName", "email", "emailAddress",
   "accountStatus", "locale"}

ProfilePictures ==
  Dicts({"profilePicture"},
        Scalars \cup {Dict(p) : p \in Dicts({"path"}, Scalars)})

\* d is a raw user payload: None, or a dict of at most MaxKeys keys
IsUserPayload(d) ==
  \/ d = None
  \/ \E D \in SUBSET UserScalarKeys : \E g \in ProfilePictures :
       /\ Cardinality(D) + Cardinality(DOMAIN g) <= MaxKeys
       /\ \E f \in [D -> Scalars] : d = Dict(f @@ g)

AttachmentScalarKeys == {"id", "type", "status", "title"}

Extensions ==
  Dicts({"extensions"},
        Scalars \cup {Dict(e) : e \in Dicts({"mediaType", "fileSize"}, Scalars)})

\* d is a raw attachment payload: None, or a dict of at most MaxKeys keys
IsAttachmentPayload(d) ==
  \/ d = None
  \/ \E D \in SUBSET AttachmentScalarKeys : \E g \in Extensions :
       /\ Cardinality(D) + Cardinality(DOMAIN g) <= MaxKeys
       /\ \E f \in [D -> Scalars] : d = Dict(f @@ g)

(***************************************************************************)
(* The state machine: one call of a factory on a raw payload, then one     *)
(* call of the serializer on the record it returned.                       *)
(***************************************************************************)
Init ==
  /\ \/ cls = "ConfluenceUser" /\ IsUserPayload(data)
     \/ cls = "ConfluenceAttachment" /\ IsAttachmentPayload(data)
  /\ pc = "call"
  /\ self = EmptyDict
  /\ result = EmptyDict
  /\ error = "none"

Construct(outcome) ==
  /\ error' = outcome.error
  /\ self' = outcome.rec
  /\ pc' = IF outcome.error = "none" THEN "returned" ELSE "raised"
  /\ UNCHANGED <<cls, data, result>>

UserFromApiResponse ==
  /\ pc = "call"
  /\ cls = "ConfluenceUser"
  /\ Construct(ConfluenceUser_from_api_response(data))

AttachmentFromApiResponse ==
  /\ pc = "call"
  /\ cls = "ConfluenceAttachment"
  /\ Construct(ConfluenceAttachment_from_api_response(data))

UserToSimplifiedDict ==
  /\ pc = "returned"
  /\ cls = "ConfluenceUser"
  /\ result' = ConfluenceUser_to_simplified_dict(self)
  /\ pc' = "serialized"
  /\ UNCHANGED <<cls, data, self, error>>

AttachmentToSimplifiedDict ==
  /\ pc = "returned"
  /\ cls = "ConfluenceAttachment"
  /\ result' = ConfluenceAttachment_to_simplified_dict(self)
  /\ pc' = "serialized"
  /\ UNCHANGED <<cls, data, self, error>>

Next ==
  \/ UserFromApiResponse
  \/ AttachmentFromApiResponse
  \/ UserToSimplifiedDict
  \/ AttachmentToSimplifiedDict

Spec == Init /\ [][Next]_vars

(***************************************************************************)
(* Vocabulary of the properties: the raw payload as the caller sees it.    *)
(***************************************************************************)
\* the raw payload is a mapping that contains the key
Has(key) == data.k = "dict" /\ key \in DOMAIN data.m

\* the raw value under a key that is present
Raw(key) == data.m[key]

\* the raw value under the key, or None (absent) when the key is missing
RawOrAbsent(key) == IF Has(key) THEN Raw(key) ELSE None

\* the sub-field of the raw "extensions" mapping, or None (absent)
ExtensionsOrAbsent(sub) ==
  IF Has("extensions") /\ sub \in DOMAIN Raw("extensions").m
  THEN Raw("extensions").m[sub] ELSE None

\* the raw payload is empty or absent
EmptyInput == data = None \/ data = Dict(EmptyDict)

\* a non-empty string under the key
Usable(key) == Has(key) /\ Raw(key).k = "str" /\ Raw(key).s # <<>>

UserBuilt == cls = "ConfluenceUser" /\ pc \in {"returned", "serialized"}

AttachmentBuilt == cls = "ConfluenceAttachment" /\ pc \in {"returned", "serialized"}

(***************************************************************************)
(* C1.  As stated: for every raw user payload, the empty and the absent    *)
(* one included, is_active is true iff "accountStatus" is present and      *)
(* equals "active".                                                        *)
(***************************************************************************)
C1_IsActiveIffStatusActive ==
  UserBuilt =>
    (self.is_active = Bool(TRUE)) =
      (Has("accountStatus") /\ Raw("accountStatus") = Str(active))

\* C1 as amended: for every non-empty raw user payload is_active is true iff
\* "accountStatus" is present and equals "active"; for the empty and the
\* absent payload is_active is the field's default, true.
C1_IsActiveNonEmpty ==
  UserBuilt =>
    (self.is_active = Bool(TRUE)) =
      (EmptyInput \/ (Has("accountStatus") /\ Raw("accountStatus") = Str(active)))

C1_Witness ==
  /\ UserBuilt
  /\ Has("accountStatus")
  /\ Raw("accountStatus") = Str(active)
  /\ self.is_active = Bool(TRUE)

(***************************************************************************)
(* C2.  Neither from_api_response nor to_simplified_dict ever raises: no   *)
(* call ends in an exception, whatever the raw mapping.                    *)
(***************************************************************************)
C2_NeverRaises == pc # "raised" /\ error = "none"

(***************************************************************************)
(* C3.  Every ConfluenceUser record that from_api_response returns has a   *)
(* display_name that is a string: the raw "displayName" when that key is   *)
(* present, the UNASSIGNED sentinel otherwise; it is never None.           *)
(***************************************************************************)
C3_DisplayNameIsString ==
  UserBuilt =>
    /\ self.display_name.k = "str"
    /\ self.display_name # None
    /\ Has("displayName") => self.display_name = Raw("displayName")
    /\ ~Has("displayName") =>
         self.display_name = Str(<<"U", "n", "a", "s", "s", "i", "g", "n", "e", "d">>)

C3_Witness ==
  /\ UserBuilt
  /\ Has("displayName")
  /\ Has("name")
  /\ self.display_name = Raw("displayName")
  /\ self.display_name # Raw("name")

(***************************************************************************)
(* C4.  As stated: for every raw user payload that contains both "email"   *)
(* and "emailAddress", the record's email equals the "email" value.        *)
(***************************************************************************)
C4_EmailKeyWins ==
  (UserBuilt /\ Has("email") /\ Has("emailAddress")) =>
    self.email = Raw("email")

\* C4 as amended: for every raw user payload that contains both keys and
\* whose "email" value is non-empty, the record's email equals the "email"
\* value.
C4_NonEmptyEmailWins ==
  (UserBuilt /\ Has("email") /\ Has("emailAddress") /\ Truthy(Raw("email"))) =>
    self.email = Raw("email")

C4_Witness ==
  /\ UserBuilt
  /\ Usable("email")
  /\ Usable("emailAddress")
  /\ Raw("email") # Raw("emailAddress")
  /\ self.email = Raw("email")

(***************************************************************************)
(* C5.  For every raw user payload with no usable "email" and no usable    *)
(* "emailAddress", the record's email is the raw "username" string when    *)
(* that raw field contains "@", and absent otherwise.                      *)
(***************************************************************************)
C5_EmailFromUsername ==
  (UserBuilt /\ ~Usable("email") /\ ~Usable("emailAddress")) =>
    self.email =
      IF Has("username") /\ Raw("username").k = "str"
         /\ (\E i \in DOMAIN Raw("username").s : Raw("username").s[i] = "@")
      THEN Raw("username") ELSE None

(***************************************************************************)
(* C6.  For every empty or absent raw input, ConfluenceUser's factory      *)
(* returns the record of defaults (display_name the sentinel, is_active    *)
(* true, the rest absent) and ConfluenceAttachment's factory returns a     *)
(* record with all six fields absent.                                      *)
(***************************************************************************)
C6_EmptyInputGivesDefaults ==
  EmptyInput =>
    /\ pc # "raised"
    /\ UserBuilt =>
         self = [account_id |-> None, username |-> None,
                 display_name |-> Str(<<"U", "n", "a", "s", "s", "i", "g", "n", "e", "d">>),
                 email |-> None, profile_picture |-> None,
                 is_active |-> Bool(TRUE), locale |-> None]
    /\ AttachmentBuilt =>
         self = [id |-> None, type |-> None, status |-> None, title |-> None,
                 media_type |-> None, file_size |-> None]

C6_Witness == EmptyInput /\ UserBuilt /\ self.is_active = Bool(TRUE)

(***************************************************************************)
(* C7.  As stated: the record's username equals the raw "username"         *)
(* whenever that key is present, whatever its value; only when it is not   *)
(* present does it equal the raw "name" if present, and it is absent when  *)
(* neither key is present.                                                 *)
(***************************************************************************)
C7_UsernameWheneverPresent ==
  UserBuilt =>
    self.username =
      IF Has("username") THEN Raw("username") ELSE RawOrAbsent("name")

\* C7 as amended: the record's username equals the raw "username" when that
\* key is present with a non-empty value; when "username" is missing, null
\* or empty it equals the raw "name" if that key is present, and it is
\* absent when "name" is not present.
C7_UsernameWhenNonEmpty ==
  UserBuilt =>
    self.username =
      IF Has("username") /\ Truthy(Raw("username")) THEN Raw("username")
      ELSE RawOrAbsent("name")

C7_Witness ==
  /\ UserBuilt
  /\ Has("username")
  /\ Raw("username") = Str(<<>>)
  /\ Usable("name")
  /\ self.username = Raw("name")

(***************************************************************************)
(* C8.  to_simplified_dict of a ConfluenceUser record returns a mapping    *)
(* whose keys are exactly display_name, username, email, profile_picture,  *)
(* each with the record's value; account_id, is_active and locale never    *)
(* appear, and the record is left unchanged.                               *)
(***************************************************************************)
C8_UserSimplifiedDict ==
  [][(cls = "ConfluenceUser" /\ pc = "returned" /\ pc' = "serialized") =>
       /\ DOMAIN result' = {"display_name", "username", "email", "profile_picture"}
       /\ \A key \in {"display_name", "username", "email", "profile_picture"} :
            result'[key] = self[key]
       /\ self' = self]_vars

C8_Witness ==
  /\ cls = "ConfluenceUser"
  /\ pc = "serialized"
  /\ self.account_id # None
  /\ self.locale # None
  /\ self.email # None

C10_EmailAbsentOrNonEmpty ==
  UserBuilt =>
    \/ self.email = None
    \/ self.email.k = "str" /\ self.email.s # <<>>

====
